---- MODULE Spec2Model ----
(***************************************************************************)
(* Model of the Glance client classes:                                     *)
(*   glance/client.py           V1Client       (image API, doc_root /v1)   *)
(*   glance/registry/client.py  RegistryClient (metadata registry)         *)
(*                                                                         *)
(* One client call is in progress at a time (the clients are synchronous   *)
(* and single-threaded).  The state holds the call being made, the         *)
(* requests it has handed to the base transport, what the transport gave   *)
(* back for each of them (responses; response is the last one), the        *)
(* outcome reported to the caller, the data stream of add_image and the    *)
(* connection held by the response of get_image.                           *)
(*                                                                         *)
(* Python values are written as their literals ("True", "None", "'a'"),    *)
(* JSON values as their JSON text ("true", "null", "\"a\"").               *)
(***************************************************************************)
EXTENDS Integers, Sequences, FiniteSets, TLC

VARIABLES pc, call, requests, responses, response, result, stream, headers,
          image_size, conn, owner, chunks, callerAssocs

vars == <<pc, call, requests, responses, response, result, stream, headers,
          image_size, conn, owner, chunks, callerAssocs>>

----------------------------------------------------------------------------
(* Bounds of the model *)

\* longest data stream handed to add_image
MaxLen == 2
\* most associations handed to replace_members
MaxAssocs == 2
\* most chunks of an image body
MaxChunks == 2
\* most top-level keys of a JSON object in a response body
MaxKeys == 1

----------------------------------------------------------------------------
(* Program constants *)

\* V1Client.__init__: doc_root="/v1", as path segments
doc_root == <<"v1">>

\* httplib.NO_CONTENT, the status the registry client compares with
NO_CONTENT == 204
\* httplib.OK, a success status the base transport also returns
OK == 200

----------------------------------------------------------------------------
(* Python dictionaries as functions from keys to values *)

EmptyDict == [k \in {} |-> ""]

\* d[k] = v
DictSet(d, k, v) == [x \in (DOMAIN d) \cup {k} |-> IF x = k THEN v ELSE d[x]]

\* d.setdefault(k, v)
DictSetDefault(d, k, v) == IF k \in DOMAIN d THEN d ELSE DictSet(d, k, v)

\* every dictionary with keys among Keys and values of key k in Vals(k)
Dicts(Keys, Vals(_)) ==
    UNION { { f \in [D -> UNION {Vals(k) : k \in Keys}] :
                \A k \in D : f[k] \in Vals(k) } : D \in SUBSET Keys }

\* bool(v) of a Python value
PyFalsy == {"False", "0", "''", "None"}
bool(v) == IF v \in PyFalsy THEN "False" ELSE "True"

\* json.dumps of a Python scalar
DumpScalar(v) ==
    CASE v = "True"  -> "true"
      [] v = "False" -> "false"
      [] v = "None"  -> "null"
      [] v = "'a'"   -> "\"a\""
      [] v = "'b'"   -> "\"b\""
      [] v = "'x'"   -> "\"x\""
      [] v = "''"    -> "\"\""
      [] OTHER       -> v

\* json.dumps of a dictionary of scalars
DumpDict(d) == [k \in DOMAIN d |-> DumpScalar(d[k])]

----------------------------------------------------------------------------
(* Outcomes of a call *)

NoResult == [kind |-> "none", value |-> "", error |-> ""]
Return(v) == [kind |-> "return", value |-> v, error |-> ""]
Raise(e) == [kind |-> "raise", value |-> "", error |-> e]

----------------------------------------------------------------------------
(* Response bodies and the base transport *)

EnvelopeKeys == {"images", "image", "members", "shared_images",
                 "cached_images", "num_purged", "num_reaped"}

JsonVals == {"[]", "7"}

JsonVal(k) == JsonVals

\* a body that is no JSON, a JSON array, or a JSON object
NotJson == [kind |-> "invalid", fields |-> EmptyDict]
JsonArray == [kind |-> "array", fields |-> EmptyDict]
JsonObject(f) == [kind |-> "object", fields |-> f]

JsonObjects ==
    { JsonObject(f) : f \in { g \in Dicts(EnvelopeKeys, JsonVal) :
                                 Cardinality(DOMAIN g) <= MaxKeys } }

Bodies == {NotJson, JsonArray} \cup JsonObjects

EmptyBody == NotJson

\* what BaseClient.do_request hands back: a response, or an exception
NoResponse == [kind |-> "none", status |-> 0, body |-> EmptyBody,
               hdrs |-> "ok", error |-> ""]
Response(s, b, h) == [kind |-> "response", status |-> s, body |-> b,
                      hdrs |-> h, error |-> ""]
TransportRaise(e) == [kind |-> "raise", status |-> 0, body |-> EmptyBody,
                      hdrs |-> "ok", error |-> e]

TransportErrors == {"NotFound", "TransportFailure"}

Raises == { TransportRaise(e) : e \in TransportErrors }

\* outcomes of a request whose response body the client decodes
BodyOutcomes == { Response(OK, b, "ok") : b \in Bodies } \cup Raises

\* outcomes of a request whose response only the status matters of
StatusOutcomes ==
    { Response(s, EmptyBody, "ok") : s \in {OK, NO_CONTENT} } \cup Raises

\* outcomes of a request whose response headers carry the image metadata
HeaderOutcomes ==
    { Response(OK, EmptyBody, h) : h \in {"ok", "bad"} } \cup Raises

----------------------------------------------------------------------------
(* Requests *)

NoBody == [kind |-> "none"]
JsonBody(v) == [kind |-> "json", value |-> v]
StrBody == [kind |-> "str"]
StreamBody == [kind |-> "stream"]

\* the request BaseClient.do_request is called with; pos is the offset of
\* the data stream at that moment (-1 when the call has no stream)
Request(method, path, body, hdrs, params, pos) ==
    [method |-> method, path |-> path, body |-> body, headers |-> hdrs,
     params |-> params, pos |-> pos]

\* V1Client.do_request: the action, stripped of its leading slash, goes
\* under doc_root
V1Client_do_request(method, action, body, hdrs, params, pos) ==
    Request(method, doc_root \o action, body, hdrs, params, pos)

\* RegistryClient inherits BaseClient.do_request: the path is the action
RegistryClient_do_request(method, action, body, hdrs, params, pos) ==
    Request(method, action, body, hdrs, params, pos)

do_request(client, method, action, body, hdrs, params, pos) ==
    IF client = "V1Client"
    THEN V1Client_do_request(method, action, body, hdrs, params, pos)
    ELSE RegistryClient_do_request(method, action, body, hdrs, params, pos)

----------------------------------------------------------------------------
(* Query parameters *)

KwKeys == {"limit", "filters", "status", "bogus"}

KwVals(k) ==
    CASE k = "limit"   -> {"1", "2"}
      [] k = "filters" -> {"{'name': 'n'}"}
      [] k = "status"  -> {"'active'", "'invalid'"}
      [] OTHER         -> {"'z'"}

Kwargs == Dicts(KwKeys, KwVals)

\* v1_images.SUPPORTED_PARAMS / server.SUPPORTED_PARAMS are defined outside
\* these two modules: the allowlist with and without `status` are both kept
SupportedParams == { {"filters", "marker", "limit", "sort_key", "sort_dir"},
                     {"filters", "marker", "limit", "sort_key", "sort_dir",
                      "status"} }

\* BaseClient._extract_params: the recognised keys, values unchanged
extract_params(kwargs, allowed) ==
    [k \in (DOMAIN kwargs) \cap allowed |-> kwargs[k]]

\* params['status'] = <status>, the mutation of the cache operations
KeepCallerStatus(params, status) == DictSetDefault(params, "status", status)

ForceStatus(params, status) == DictSet(params, "status", status)

----------------------------------------------------------------------------
(* Decoding *)

\* json.loads(res.read())
LoadsFails(body) == body.kind = "invalid"

\* data.get(key): a missing key gives None
EnvelopeGet(body, key) ==
    IF LoadsFails(body) THEN Raise("ValueError")
    ELSE IF body.kind # "object" THEN Raise("TypeError")
    ELSE IF key \notin DOMAIN body.fields THEN Return("None")
    ELSE Return(body.fields[key])

\* json.loads(res.read())[key]
Envelope(body, key) ==
    IF LoadsFails(body) THEN Raise("ValueError")
    ELSE IF body.kind # "object" THEN Raise("TypeError")
    ELSE IF key \notin DOMAIN body.fields THEN Raise("KeyError")
    ELSE Return(body.fields[key])

\* utils.get_image_meta_from_headers(res)
get_image_meta_from_headers(res) ==
    IF res.hdrs = "ok" THEN Return("image_meta") ELSE Raise("ValueError")

----------------------------------------------------------------------------
(* Arguments of a call *)

ImageIds == {"1", "2"}
MemberIds == {"'a'", "'b'"}

NoStream == [kind |-> "none", len |-> 0, pos |-> 0,
             failAt |-> "none", errno |-> "none"]

NoCall == [client |-> "", op |-> "", kwargs |-> EmptyDict, allowed |-> {},
           image_id |-> "", member_id |-> "", can_share |-> "None",
           assocs |-> <<>>, image_meta |-> EmptyDict,
           wrapped |-> "False", purge_props |-> "False",
           image_data |-> NoStream]

Call(client, op) == [NoCall EXCEPT !.client = client, !.op = op]

----------------------------------------------------------------------------
(* State after construction of the clients *)

Init ==
    /\ pc = "idle"
    /\ call = NoCall
    /\ requests = <<>>
    /\ responses = <<>>
    /\ response = NoResponse
    /\ result = NoResult
    /\ stream = NoStream
    /\ headers = EmptyDict
    /\ image_size = "None"
    /\ conn = "none"
    /\ owner = "none"
    /\ chunks = 0
    /\ callerAssocs = <<>>

\* a new call starts when the caller holds no call in progress
CanCall == pc = "idle"

\* a call that has made the requests reqs, got outs from the transport for
\* them, one after the other, and finishes with outcome res
Outcomes(c, reqs, outs, res) ==
    /\ call' = c
    /\ requests' = reqs
    /\ responses' = outs
    /\ response' = IF Len(outs) = 0 THEN NoResponse ELSE outs[Len(outs)]
    /\ result' = res
    /\ pc' = "done"

\* a call that has made at most one request, answered by out
Outcome(c, reqs, out, res) ==
    Outcomes(c, reqs, IF Len(reqs) = 0 THEN <<>> ELSE <<out>>, res)

\* the call had no data stream, no image body and no associations
NothingHeld ==
    /\ stream' = NoStream
    /\ headers' = EmptyDict
    /\ image_size' = "None"
    /\ conn' = "none"
    /\ owner' = "none"
    /\ chunks' = 0
    /\ callerAssocs' = <<>>

\* ... of a call with no data stream, no image body and no associations
Finish(c, reqs, out, res) ==
    /\ Outcome(c, reqs, out, res)
    /\ NothingHeld

\* res = do_request(...); return json.loads(res.read())[key]
DecodeCall(c, req, key) ==
    \E out \in BodyOutcomes :
         Finish(c, <<req>>, out,
                IF out.kind = "raise" THEN Raise(out.error)
                ELSE Envelope(out.body, key))

\* do_request(...); return True
TrueCall(c, req) ==
    \E out \in StatusOutcomes :
         Finish(c, <<req>>, out,
                IF out.kind = "raise" THEN Raise(out.error)
                ELSE Return("True"))

\* res = do_request(...); return res.status == 204
StatusCall(c, req) ==
    \E out \in StatusOutcomes :
         Finish(c, <<req>>, out,
                IF out.kind = "raise" THEN Raise(out.error)
                ELSE Return(IF out.status = NO_CONTENT THEN "True"
                            ELSE "False"))

\* a listing: params = _extract_params(kwargs, SUPPORTED_PARAMS), then GET
ListCall(client, op, action, key) ==
    \E kwargs \in Kwargs, allowed \in SupportedParams :
        DecodeCall([Call(client, op) EXCEPT !.kwargs = kwargs,
                                            !.allowed = allowed],
                   do_request(client, "GET", action, NoBody, EmptyDict,
                              extract_params(kwargs, allowed), -1),
                   key)

\* a cache operation that forces the status parameter
ForcedCall(op, method, status, key) ==
    \E kwargs \in Kwargs, allowed \in SupportedParams :
        DecodeCall([Call("V1Client", op) EXCEPT !.kwargs = kwargs,
                                                !.allowed = allowed],
                   do_request("V1Client", method, <<"cached_images">>,
                              NoBody, EmptyDict,
                              ForceStatus(extract_params(kwargs, allowed),
                                          status), -1),
                   key)

----------------------------------------------------------------------------
(* V1Client: listings and cache administration *)

V1Client_get_images ==
    /\ CanCall
    /\ ListCall("V1Client", "get_images", <<"images">>, "images")

V1Client_get_images_detailed ==
    /\ CanCall
    /\ ListCall("V1Client", "get_images_detailed", <<"images", "detail">>,
             "images")

V1Client_get_cached_images ==
    /\ CanCall
    /\ ListCall("V1Client", "get_cached_images", <<"cached_images">>,
             "cached_images")

V1Client_get_invalid_cached_images ==
    /\ CanCall
    /\ ForcedCall("get_invalid_cached_images", "GET", "'invalid'",
               "cached_images")

V1Client_get_incomplete_cached_images ==
    /\ CanCall
    /\ ForcedCall("get_incomplete_cached_images", "GET", "'incomplete'",
               "cached_images")

V1Client_get_prefetching_cache_images ==
    /\ CanCall
    /\ ForcedCall("get_prefetching_cache_images", "GET", "'prefetching'",
               "cached_images")

V1Client_reap_invalid_cached_images ==
    /\ CanCall
    /\ ForcedCall("reap_invalid_cached_images", "DELETE", "'invalid'",
               "num_reaped")

V1Client_reap_stalled_cached_images ==
    /\ CanCall
    /\ ForcedCall("reap_stalled_cached_images", "DELETE", "'incomplete'",
               "num_reaped")

V1Client_purge_cached_image ==
    /\ CanCall
    /\ \E id \in ImageIds :
        TrueCall([Call("V1Client", "purge_cached_image")
                     EXCEPT !.image_id = id],
                 do_request("V1Client", "DELETE", <<"cached_images", id>>,
                            NoBody, EmptyDict, EmptyDict, -1))

V1Client_clear_cached_images ==
    /\ CanCall
    /\ DecodeCall(Call("V1Client", "clear_cached_images"),
               do_request("V1Client", "DELETE", <<"cached_images">>,
                          NoBody, EmptyDict, EmptyDict, -1),
               "num_purged")

----------------------------------------------------------------------------

(* Image metadata and data *)

MetaKeys == {"name", "size"}

MetaVals(k) == IF k = "size" THEN {"9"} ELSE {"'n'"}

ImageMetas == Dicts(MetaKeys, MetaVals)

\* utils.image_meta_to_http_headers: field k travels as x-image-meta-k
image_meta_to_http_headers(meta) ==
    [h \in { IF k = "size" THEN "x-image-meta-size" ELSE "x-image-meta-name" :
             k \in DOMAIN meta } |->
        IF h = "x-image-meta-size" THEN meta["size"] ELSE meta["name"]]

\* image data: None, a string, a file-like object with seek and tell, or a
\* reader without them.  A file-like object has a length and an offset;
\* failAt names the call on it that raises IOError, errno its errno.
StrData(n) == [kind |-> "str", len |-> n, pos |-> 0,
               failAt |-> "none", errno |-> "none"]
ReaderData == [kind |-> "reader", len |-> 0, pos |-> 0,
               failAt |-> "none", errno |-> "none"]
FileData(n, p, at, e) == [kind |-> "file", len |-> n, pos |-> p,
                          failAt |-> at, errno |-> e]

Errnos == {"ESPIPE", "EIO", "EBADF"}

FileDatas ==
    { FileData(n, p, "none", "none") : n \in 0..MaxLen, p \in 0..MaxLen }
    \cup { FileData(n, p, at, e) : n \in 0..MaxLen, p \in 0..MaxLen,
                                   at \in {"seek_end", "tell", "seek_0"},
                                   e \in Errnos }

ImageDatas == {NoStream, StrData(0), StrData(1), ReaderData} \cup FileDatas

\* `if image_data:`
Truthy(d) == d.kind \in {"file", "reader"} \/ (d.kind = "str" /\ d.len > 0)

\* hasattr(image_data, 'seek') and hasattr(image_data, 'tell')
HasSeekTell(d) == d.kind = "file"

\* the body that carries image_data
DataBody(d) ==
    IF d.kind = "str" THEN StrBody
    ELSE IF d.kind = "none" THEN NoBody ELSE StreamBody

\* the offset of the data handed over as body
DataPos(d) == IF d.kind \in {"file", "reader"} THEN d.pos ELSE -1

----------------------------------------------------------------------------
(* V1Client: image metadata, update and delete *)

\* res = do_request("HEAD", ...); return get_image_meta_from_headers(res)
V1Client_get_image_meta ==
    /\ CanCall
    /\ \E id \in ImageIds, out \in HeaderOutcomes :
         Finish([Call("V1Client", "get_image_meta") EXCEPT !.image_id = id],
                <<do_request("V1Client", "HEAD", <<"images", id>>, NoBody,
                             EmptyDict, EmptyDict, -1)>>,
                out,
                IF out.kind = "raise" THEN Raise(out.error)
                ELSE get_image_meta_from_headers(out))

\* headers of update_image: the metadata, and the content type of a body
update_image_headers(meta, data) ==
    IF Truthy(data)
    THEN DictSet(image_meta_to_http_headers(meta), "content-type",
                 "application/octet-stream")
    ELSE image_meta_to_http_headers(meta)

V1Client_update_image ==
    /\ CanCall
    /\ \E id \in ImageIds, meta \in ImageMetas,
       data \in {NoStream, StrData(0), StrData(1), ReaderData,
                 FileData(1, 0, "none", "none")} :
        DecodeCall([Call("V1Client", "update_image")
                       EXCEPT !.image_id = id, !.image_meta = meta,
                              !.image_data = data],
                   do_request("V1Client", "PUT", <<"images", id>>,
                              IF Truthy(data) THEN DataBody(data) ELSE NoBody,
                              update_image_headers(meta, data), EmptyDict,
                              DataPos(data)),
                   "image")

V1Client_delete_image ==
    /\ CanCall
    /\ \E id \in ImageIds :
        TrueCall([Call("V1Client", "delete_image") EXCEPT !.image_id = id],
                 do_request("V1Client", "DELETE", <<"images", id>>,
                            NoBody, EmptyDict, EmptyDict, -1))

----------------------------------------------------------------------------
(* Membership *)

AssocKeys == {"member_id", "can_share", "extra"}

AssocVals(k) ==
    CASE k = "member_id" -> MemberIds
      [] k = "can_share" -> {"True", "0", "'x'"}
      [] OTHER           -> {"'x'"}

Assocs == Dicts(AssocKeys, AssocVals)

AssocSeqs == UNION { [1..n -> Assocs] : n \in 0..MaxAssocs }

\* can_share of add_member: None when unspecified
CanShares == {"None", "True", "False", "0", "'x'"}

\* assoc_data = dict(assoc): everything the caller passed, as it is
assoc_data_copy(assoc) == assoc

\* the association sent for a caller's association that has member_id
assoc_data(assoc) ==
    LET data == [k \in {"member_id"} |-> assoc["member_id"]]
    IN  IF "can_share" \in DOMAIN assoc
        THEN DictSet(data, "can_share", bool(assoc["can_share"]))
        ELSE data

\* member_id=assoc.get('member_id'): a missing member_id is None
validate_assocs_get(assocs) ==
    [error |-> "",
     validated |->
        [i \in 1..Len(assocs) |->
            IF "member_id" \in DOMAIN assocs[i] THEN assoc_data(assocs[i])
            ELSE [k \in {"member_id"} |-> "None"]],
     after |-> assocs]

\* V1Client._validate_assocs: the list to send, or the KeyError of the
\* first association without member_id; `after` is the caller's
\* associations once it is over
validate_assocs(assocs) ==
    IF \E i \in 1..Len(assocs) : "member_id" \notin DOMAIN assocs[i]
    THEN [error |-> "KeyError", validated |-> <<>>, after |-> assocs]
    ELSE [error |-> "",
          validated |-> [i \in 1..Len(assocs) |-> assoc_data(assocs[i])],
          after |-> assocs]

\* json.dumps of a list of dictionaries
DumpList(l) == [i \in 1..Len(l) |-> DumpDict(l[i])]

JsonContentType == [k \in {"content-type"} |-> "application/json"]

V1Client_replace_members ==
    /\ CanCall
    /\ \E id \in ImageIds, assocs \in AssocSeqs, out \in StatusOutcomes :
         LET c == [Call("V1Client", "replace_members")
                      EXCEPT !.image_id = id, !.assocs = assocs]
             v == validate_assocs(assocs)
         IN  /\ IF v.error # ""
                THEN Outcome(c, <<>>, NoResponse, Raise(v.error))
                ELSE Outcome(c,
                            <<do_request("V1Client", "PUT",
                                         <<"images", id, "members">>,
                                         JsonBody(DumpList(v.validated)),
                                         JsonContentType, EmptyDict, -1)>>,
                            out,
                            IF out.kind = "raise" THEN Raise(out.error)
                            ELSE Return("True"))
             /\ callerAssocs' = v.after
             /\ UNCHANGED <<stream, headers, image_size, conn, owner, chunks>>

\* body and headers of V1Client.add_member
V1Client_add_member_body(can_share) ==
    IF can_share # "None"
    THEN JsonBody([member |-> [can_share |-> DumpScalar(bool(can_share))]])
    ELSE NoBody

V1Client_add_member_headers(can_share) ==
    IF can_share # "None" THEN JsonContentType ELSE EmptyDict

V1Client_add_member ==
    /\ CanCall
    /\ \E id \in ImageIds, m \in MemberIds, can_share \in CanShares :
        TrueCall([Call("V1Client", "add_member")
                     EXCEPT !.image_id = id, !.member_id = m,
                            !.can_share = can_share],
                 do_request("V1Client", "PUT",
                            <<"images", id, "members", m>>,
                            V1Client_add_member_body(can_share),
                            V1Client_add_member_headers(can_share),
                            EmptyDict, -1))

V1Client_delete_member ==
    /\ CanCall
    /\ \E id \in ImageIds, m \in MemberIds :
        TrueCall([Call("V1Client", "delete_member")
                     EXCEPT !.image_id = id, !.member_id = m],
                 do_request("V1Client", "DELETE",
                            <<"images", id, "members", m>>,
                            NoBody, EmptyDict, EmptyDict, -1))

V1Client_get_image_members ==
    /\ CanCall
    /\ \E id \in ImageIds :
        DecodeCall([Call("V1Client", "get_image_members")
                       EXCEPT !.image_id = id],
                   do_request("V1Client", "GET", <<"images", id, "members">>,
                              NoBody, EmptyDict, EmptyDict, -1),
                   "members")

V1Client_get_member_images ==
    /\ CanCall
    /\ \E m \in MemberIds :
        DecodeCall([Call("V1Client", "get_member_images")
                       EXCEPT !.member_id = m],
                   do_request("V1Client", "GET", <<"shared-images", m>>,
                              NoBody, EmptyDict, EmptyDict, -1),
                   "shared_images")

----------------------------------------------------------------------------

(* V1Client.add_image, step by step *)

\* image_data.seek(offset, whence)
seek(s, offset, whence) ==
    [s EXCEPT !.pos = IF whence = "SEEK_END" THEN s.len + offset ELSE offset]

\* image_data.tell(), as a Python integer
tell(s) == ToString(s.pos)

\* image_data.seek(0, os.SEEK_END)
seek_to_end(s) == seek(s, 0, "SEEK_END")

\* the stream is left where the length was read
no_rewind(s) == s

\* image_data.seek(0)
rewind(s) == seek(s, 0, "SEEK_SET")

\* `except IOError: raise`, whatever the errno
always_raise(errno) == "raise"

\* `except IOError: pass`, whatever the errno
always_pass(errno) == "pass"

\* except IOError, e: pass if e.errno == errno.ESPIPE, else raise
except_IOError(errno) == IF errno = "ESPIPE" THEN "pass" ELSE "raise"

\* the headers before the length is looked for
add_image_headers(meta, data) ==
    IF Truthy(data)
    THEN DictSet(image_meta_to_http_headers(meta), "content-type",
                 "application/octet-stream")
    ELSE image_meta_to_http_headers(meta)

\* headers['x-image-meta-size'] = image_size
\* headers['content-length'] = image_size
size_headers(h, size) ==
    DictSet(DictSet(h, "x-image-meta-size", size), "content-length", size)

\* add_image is entered: headers and body are set up
V1Client_add_image ==
    /\ CanCall
    /\ \E meta \in ImageMetas, data \in ImageDatas :
         /\ call' = [Call("V1Client", "add_image")
                        EXCEPT !.image_meta = meta, !.image_data = data]
         /\ stream' = data
         /\ headers' = add_image_headers(meta, data)
         /\ pc' = IF Truthy(data) /\ HasSeekTell(data)
                  THEN "add_image_seek_end" ELSE "add_image_request"
    /\ UNCHANGED <<requests, responses, response,
                   result, image_size, conn, owner,
                   chunks, callerAssocs>>

\* a call on the stream raised IOError with the stream's errno
add_image_IOError ==
    IF except_IOError(stream.errno) = "pass"
    THEN /\ pc' = "add_image_request"
         /\ UNCHANGED result
    ELSE /\ pc' = "done"
         /\ result' = Raise(stream.errno)

add_image_seek_end ==
    /\ pc = "add_image_seek_end"
    /\ IF stream.failAt = "seek_end"
       THEN add_image_IOError /\ UNCHANGED stream
       ELSE /\ stream' = seek_to_end(stream)
            /\ pc' = "add_image_tell"
            /\ UNCHANGED result
    /\ UNCHANGED <<call, requests, responses, response,
                   headers, image_size, conn,
                   owner, chunks, callerAssocs>>

add_image_tell ==
    /\ pc = "add_image_tell"
    /\ IF stream.failAt = "tell"
       THEN add_image_IOError /\ UNCHANGED image_size
       ELSE /\ image_size' = tell(stream)
            /\ pc' = "add_image_seek_0"
            /\ UNCHANGED result
    /\ UNCHANGED <<call, requests, responses, response,
                   stream, headers, conn, owner,
                   chunks, callerAssocs>>

add_image_seek_0 ==
    /\ pc = "add_image_seek_0"
    /\ IF stream.failAt = "seek_0"
       THEN add_image_IOError /\ UNCHANGED <<stream, headers>>
       ELSE /\ stream' = rewind(stream)
            /\ headers' = size_headers(headers, image_size)
            /\ pc' = "add_image_request"
            /\ UNCHANGED result
    /\ UNCHANGED <<call, requests, responses, response,
                   image_size, conn, owner,
                   chunks, callerAssocs>>

\* res = do_request("POST", "/images", body, headers)
\* return json.loads(res.read())['image']
add_image_request ==
    /\ pc = "add_image_request"
    /\ \E out \in BodyOutcomes :
         /\ requests' = <<do_request("V1Client", "POST", <<"images">>,
                                     IF Truthy(stream) THEN DataBody(stream)
                                     ELSE NoBody,
                                     headers, EmptyDict, DataPos(stream))>>
         /\ responses' = <<out>>
         /\ response' = out
         /\ result' = IF out.kind = "raise" THEN Raise(out.error)
                      ELSE Envelope(out.body, "image")
    /\ pc' = "done"
    /\ UNCHANGED <<call, stream, headers, image_size, conn, owner, chunks,
                   callerAssocs>>

----------------------------------------------------------------------------
(* V1Client.get_image and the image body it hands to the caller *)

\* the connection once get_image_meta_from_headers(res) has raised:
\* get_image has no handler, the response is dropped as it is
conn_after_decode_error == [conn |-> "open", owner |-> "none"]

\* res = do_request("GET", ...)
\* image = utils.get_image_meta_from_headers(res)
\* return image, base_client.ImageBodyIterator(res)
V1Client_get_image ==
    /\ CanCall
    /\ \E id \in ImageIds, out \in HeaderOutcomes, n \in 0..MaxChunks :
         LET c == [Call("V1Client", "get_image") EXCEPT !.image_id = id]
             req == do_request("V1Client", "GET", <<"images", id>>, NoBody,
                               EmptyDict, EmptyDict, -1)
             image == get_image_meta_from_headers(out)
         IN  IF out.kind = "raise"
             THEN /\ Outcome(c, <<req>>, out, Raise(out.error))
                  /\ conn' = "none"
                  /\ owner' = "none"
                  /\ chunks' = 0
             ELSE IF image.kind = "raise"
             THEN /\ Outcome(c, <<req>>, out, image)
                  /\ conn' = conn_after_decode_error.conn
                  /\ owner' = conn_after_decode_error.owner
                  /\ chunks' = n
             ELSE /\ Outcome(c, <<req>>, out,
                             Return("(image_meta, ImageBodyIterator)"))
                  /\ conn' = "open"
                  /\ owner' = "caller"
                  /\ chunks' = n
    /\ UNCHANGED <<stream, headers, image_size, callerAssocs>>

IteratorHeld ==
    /\ pc = "done"
    /\ call.op = "get_image"
    /\ conn = "open"
    /\ owner = "caller"

\* the caller takes the next chunk; reading past the last one ends the
\* stream and releases the connection
ImageBodyIterator_next ==
    /\ IteratorHeld
    /\ IF chunks > 0
       THEN chunks' = chunks - 1 /\ UNCHANGED conn
       ELSE conn' = "released" /\ UNCHANGED chunks
    /\ UNCHANGED <<pc, call, requests, responses, response,
                   result, stream, headers,
                   image_size, owner, callerAssocs>>

\* the caller closes the stream before its end
ImageBodyIterator_close ==
    /\ IteratorHeld
    /\ conn' = "released"
    /\ UNCHANGED <<pc, call, requests, responses, response,
                   result, stream, headers,
                   image_size, owner, chunks, callerAssocs>>

\* the caller drops the stream without closing it
ImageBodyIterator_abandon ==
    /\ IteratorHeld
    /\ conn' = "released"
    /\ owner' = "none"
    /\ UNCHANGED <<pc, call, requests, responses, response,
                   result, stream, headers,
                   image_size, chunks, callerAssocs>>

----------------------------------------------------------------------------
(* V1Client.prefetch_cache_image *)

\* the PUT alone, without the check
prefetch_put_only(head, put) == <<put>>

\* the requests of a prefetch that gets through its check
prefetch_requests(head, put) == <<head, put>>

\* the PUT is issued whatever became of the check
prefetch_check_ignored(out1, image) == TRUE

\* the existence check lets the call go on: neither the HEAD nor the
\* decoding of its headers raised (nothing catches either)
prefetch_check_passes(out1, image) ==
    out1.kind # "raise" /\ image.kind # "raise"

\* res = do_request("HEAD", "/images/%s" % image_id)
\* image = utils.get_image_meta_from_headers(res)
\* do_request("PUT", "/cached_images/%s" % image_id)
\* return True
V1Client_prefetch_cache_image ==
    /\ CanCall
    /\ \E id \in ImageIds, out1 \in HeaderOutcomes, out2 \in StatusOutcomes :
         LET c == [Call("V1Client", "prefetch_cache_image")
                      EXCEPT !.image_id = id]
             head == do_request("V1Client", "HEAD", <<"images", id>>, NoBody,
                                EmptyDict, EmptyDict, -1)
             put == do_request("V1Client", "PUT", <<"cached_images", id>>,
                               NoBody, EmptyDict, EmptyDict, -1)
             image == get_image_meta_from_headers(out1)
         IN  /\ IF prefetch_check_passes(out1, image)
                THEN Outcomes(c, prefetch_requests(head, put),
                              <<out1, out2>>,
                              IF out2.kind = "raise" THEN Raise(out2.error)
                              ELSE Return("True"))
                ELSE IF out1.kind = "raise"
                THEN Outcomes(c, <<head>>, <<out1>>, Raise(out1.error))
                ELSE Outcomes(c, <<head>>, <<out1>>, image)
             /\ NothingHeld

----------------------------------------------------------------------------
(* RegistryClient *)

RegistryClient_get_images ==
    /\ CanCall
    /\ ListCall("RegistryClient", "get_images", <<"images">>, "images")

RegistryClient_get_images_detailed ==
    /\ CanCall
    /\ ListCall("RegistryClient", "get_images_detailed", <<"images", "detail">>,
             "images")

RegistryClient_get_image ==
    /\ CanCall
    /\ \E id \in ImageIds :
        DecodeCall([Call("RegistryClient", "get_image")
                       EXCEPT !.image_id = id],
                   do_request("RegistryClient", "GET", <<"images", id>>,
                              NoBody, EmptyDict, EmptyDict, -1),
                   "image")

RegistryContentType == [k \in {"Content-Type"} |-> "application/json"]

\* if 'image' not in image_metadata.keys():
\*     image_metadata = dict(image=image_metadata)
\* body = json.dumps(image_metadata)
\* (wrapped tells whether the caller passed the envelope already)
registry_image_body(meta, wrapped) ==
    LET image_metadata == IF wrapped = "True" THEN [image |-> meta] ELSE meta
    IN  IF "image" \notin DOMAIN image_metadata
        THEN JsonBody([image |-> DumpDict(image_metadata)])
        ELSE JsonBody([image |-> DumpDict(image_metadata["image"])])

RegistryClient_add_image ==
    /\ CanCall
    /\ \E meta \in ImageMetas, wrapped \in {"True", "False"} :
        DecodeCall([Call("RegistryClient", "add_image")
                       EXCEPT !.image_meta = meta, !.wrapped = wrapped],
                   do_request("RegistryClient", "POST", <<"images">>,
                              registry_image_body(meta, wrapped),
                              RegistryContentType, EmptyDict, -1),
                   "image")

\* headers of RegistryClient.update_image
registry_update_headers(purge_props) ==
    IF purge_props = "True"
    THEN DictSet(RegistryContentType, "X-Glance-Registry-Purge-Props", "true")
    ELSE RegistryContentType

RegistryClient_update_image ==
    /\ CanCall
    /\ \E id \in ImageIds, meta \in ImageMetas, purge \in {"True", "False"} :
        DecodeCall([Call("RegistryClient", "update_image")
                       EXCEPT !.image_id = id, !.image_meta = meta,
                              !.purge_props = purge],
                   do_request("RegistryClient", "PUT", <<"images", id>>,
                              registry_image_body(meta, "False"),
                              registry_update_headers(purge), EmptyDict, -1),
                   "image")

RegistryClient_delete_image ==
    /\ CanCall
    /\ \E id \in ImageIds :
        TrueCall([Call("RegistryClient", "delete_image")
                     EXCEPT !.image_id = id],
                 do_request("RegistryClient", "DELETE", <<"images", id>>,
                            NoBody, EmptyDict, EmptyDict, -1))

RegistryClient_get_image_members ==
    /\ CanCall
    /\ \E id \in ImageIds :
        DecodeCall([Call("RegistryClient", "get_image_members")
                       EXCEPT !.image_id = id],
                   do_request("RegistryClient", "GET",
                              <<"images", id, "members">>,
                              NoBody, EmptyDict, EmptyDict, -1),
                   "members")

RegistryClient_get_member_images ==
    /\ CanCall
    /\ \E m \in MemberIds :
        DecodeCall([Call("RegistryClient", "get_member_images")
                       EXCEPT !.member_id = m],
                   do_request("RegistryClient", "GET", <<"shared-images", m>>,
                              NoBody, EmptyDict, EmptyDict, -1),
                   "shared_images")

\* if 'memberships' not in member_data.keys():
\*     member_data = dict(memberships=[member_data])
\* body = json.dumps(member_data)
\* (the caller passes the list of memberships, wrapped, or one bare
\* association)
registry_members_body(assocs, wrapped) ==
    IF wrapped = "True"
    THEN JsonBody([memberships |-> DumpList(assocs)])
    ELSE JsonBody([memberships |-> DumpList(<<assocs[1]>>)])

RegistryClient_replace_members ==
    /\ CanCall
    /\ \E id \in ImageIds,
       assocs \in UNION { [1..n -> Assocs] : n \in 0..1 },
       wrapped \in {"True", "False"} :
        /\ (wrapped = "False" => Len(assocs) = 1)
        /\ StatusCall([Call("RegistryClient", "replace_members")
                          EXCEPT !.image_id = id, !.assocs = assocs,
                                 !.wrapped = wrapped],
                      do_request("RegistryClient", "PUT",
                                 <<"images", id, "members">>,
                                 registry_members_body(assocs, wrapped),
                                 RegistryContentType, EmptyDict, -1))

\* body and headers of RegistryClient.add_member
RegistryClient_add_member_body(can_share) ==
    IF can_share # "None"
    THEN JsonBody([member |-> [can_share |-> DumpScalar(can_share)]])
    ELSE NoBody

RegistryClient_add_member_headers(can_share) ==
    IF can_share # "None" THEN RegistryContentType ELSE EmptyDict

RegistryClient_add_member ==
    /\ CanCall
    /\ \E id \in ImageIds, m \in MemberIds, can_share \in CanShares :
        StatusCall([Call("RegistryClient", "add_member")
                       EXCEPT !.image_id = id, !.member_id = m,
                              !.can_share = can_share],
                   do_request("RegistryClient", "PUT",
                              <<"images", id, "members", m>>,
                              RegistryClient_add_member_body(can_share),
                              RegistryClient_add_member_headers(can_share),
                              EmptyDict, -1))

RegistryClient_delete_member ==
    /\ CanCall
    /\ \E id \in ImageIds, m \in MemberIds :
        StatusCall([Call("RegistryClient", "delete_member")
                       EXCEPT !.image_id = id, !.member_id = m],
                   do_request("RegistryClient", "DELETE",
                              <<"images", id, "members", m>>,
                              NoBody, EmptyDict, EmptyDict, -1))

----------------------------------------------------------------------------

\* the caller has taken the outcome of the call and is ready for the next
\* one; an image body it was given is no longer iterated
CallerContinues ==
    /\ pc = "done"
    /\ ~(conn = "open" /\ owner = "caller")
    /\ pc' = "idle"
    /\ call' = NoCall
    /\ requests' = <<>>
    /\ responses' = <<>>
    /\ response' = NoResponse
    /\ result' = NoResult
    /\ stream' = NoStream
    /\ headers' = EmptyDict
    /\ image_size' = "None"
    /\ conn' = "none"
    /\ owner' = "none"
    /\ chunks' = 0
    /\ callerAssocs' = <<>>

Next ==
    \/ CallerContinues
    \/ V1Client_get_images
    \/ V1Client_get_images_detailed
    \/ V1Client_get_cached_images
    \/ V1Client_get_invalid_cached_images
    \/ V1Client_get_incomplete_cached_images
    \/ V1Client_get_prefetching_cache_images
    \/ V1Client_reap_invalid_cached_images
    \/ V1Client_reap_stalled_cached_images
    \/ V1Client_purge_cached_image
    \/ V1Client_clear_cached_images
    \/ V1Client_get_image_meta
    \/ V1Client_update_image
    \/ V1Client_delete_image
    \/ V1Client_replace_members
    \/ V1Client_add_member
    \/ V1Client_delete_member
    \/ V1Client_get_image_members
    \/ V1Client_get_member_images
    \/ V1Client_add_image
    \/ add_image_seek_end
    \/ add_image_tell
    \/ add_image_seek_0
    \/ add_image_request
    \/ V1Client_get_image
    \/ ImageBodyIterator_next
    \/ ImageBodyIterator_close
    \/ ImageBodyIterator_abandon
    \/ V1Client_prefetch_cache_image
    \/ RegistryClient_get_images
    \/ RegistryClient_get_images_detailed
    \/ RegistryClient_get_image
    \/ RegistryClient_add_image
    \/ RegistryClient_update_image
    \/ RegistryClient_delete_image
    \/ RegistryClient_get_image_members
    \/ RegistryClient_get_member_images
    \/ RegistryClient_replace_members
    \/ RegistryClient_add_member
    \/ RegistryClient_delete_member

Spec == Init /\ [][Next]_vars

----------------------------------------------------------------------------
(* The claims *)

Done == pc = "done"

TheRequest == requests[1]

\* the cache operations that force the status parameter
ForcedStatus ==
    [get_invalid_cached_images    |-> "'invalid'",
     get_incomplete_cached_images |-> "'incomplete'",
     get_prefetching_cache_images |-> "'prefetching'",
     reap_invalid_cached_images   |-> "'invalid'",
     reap_stalled_cached_images   |-> "'incomplete'"]

ForcedMethod(op) ==
    IF op \in {"reap_invalid_cached_images", "reap_stalled_cached_images"}
    THEN "DELETE" ELSE "GET"

\* C1: an operation that forces a status sends exactly one request, to
\* /cached_images under the document root, with its method, whose status
\* parameter is the forced value whatever status the caller supplied; the
\* other parameters are the caller's recognised options, values unchanged.
C1_ForcedStatusSent ==
    (Done /\ call.op \in DOMAIN ForcedStatus) =>
        /\ Len(requests) = 1
        /\ TheRequest.method = ForcedMethod(call.op)
        /\ TheRequest.path = <<"v1", "cached_images">>
        /\ "status" \in DOMAIN TheRequest.params
        /\ TheRequest.params["status"] = ForcedStatus[call.op]
        /\ DOMAIN TheRequest.params =
              ((DOMAIN call.kwargs) \cap call.allowed) \cup {"status"}
        /\ \A k \in (DOMAIN TheRequest.params) \ {"status"} :
              TheRequest.params[k] = call.kwargs[k]

\* C1 happens: a caller passed a conflicting status that the allowlist lets
\* through, with another option, and the forced value went out
C1_Witness ==
    /\ Done
    /\ call.op = "get_incomplete_cached_images"
    /\ "status" \in (DOMAIN call.kwargs) \cap call.allowed
    /\ call.kwargs["status"] = "'invalid'"
    /\ "limit" \in DOMAIN call.kwargs
    /\ Len(requests) = 1
    /\ TheRequest.params["status"] = "'incomplete'"
    /\ TheRequest.params["limit"] = call.kwargs["limit"]

\* add_image was called with a file-like stream on which no call fails
SeekableAddImage ==
    /\ call.op = "add_image"
    /\ call.image_data.kind = "file"
    /\ call.image_data.failAt = "none"

\* C2: add_image with a seekable stream of length N, from any initial
\* offset, sends a POST whose content-length and x-image-meta-size are both
\* N, and the stream is at offset 0 when the request is handed over; the
\* stream is read for its length at its end, before it is sought back.
C2_LengthHeadersAndRewind ==
    /\ (SeekableAddImage /\ pc = "add_image_tell") =>
            stream.pos = call.image_data.len
    /\ (SeekableAddImage /\ pc = "add_image_seek_0") =>
            image_size = ToString(call.image_data.len)
    /\ (SeekableAddImage /\ pc = "add_image_request") =>
            /\ stream.pos = 0
            /\ requests = <<>>
    /\ (SeekableAddImage /\ Done) =>
            /\ Len(requests) = 1
            /\ TheRequest.method = "POST"
            /\ TheRequest.path = <<"v1", "images">>
            /\ TheRequest.body = StreamBody
            /\ TheRequest.headers["content-length"] =
                  ToString(call.image_data.len)
            /\ TheRequest.headers["x-image-meta-size"] =
                  ToString(call.image_data.len)
            /\ TheRequest.pos = 0

\* C2 happens: a stream of the greatest length, entered in its middle, with
\* a size in the metadata that the computed one replaces
C2_Witness ==
    /\ SeekableAddImage /\ Done
    /\ call.image_data.len = MaxLen
    /\ call.image_data.pos \notin {0, MaxLen}
    /\ "size" \in DOMAIN call.image_meta
    /\ Len(requests) = 1
    /\ TheRequest.headers["content-length"] = ToString(MaxLen)
    /\ TheRequest.pos = 0

\* add_image was called with a stream on which a call fails with errno e
FailingAddImage(e) ==
    /\ call.op = "add_image"
    /\ call.image_data.kind = "file"
    /\ call.image_data.failAt # "none"
    /\ call.image_data.errno = e

\* C3: add_image with a stream whose seek (or tell) fails with ESPIPE does
\* not raise that error: it issues the POST to /images with the stream as
\* body and content-type application/octet-stream, and the headers are the
\* ones of the metadata: no content-length, and no x-image-meta-size but
\* the one the caller's metadata carries.
C3_PipeProceeds ==
    (FailingAddImage("ESPIPE") /\ Done) =>
        /\ result.error \notin Errnos
        /\ Len(requests) = 1
        /\ TheRequest.method = "POST"
        /\ TheRequest.path = <<"v1", "images">>
        /\ TheRequest.body = StreamBody
        /\ TheRequest.headers["content-type"] = "application/octet-stream"
        /\ "content-length" \notin DOMAIN TheRequest.headers
        /\ IF "size" \in DOMAIN call.image_meta
           THEN TheRequest.headers["x-image-meta-size"] =
                    call.image_meta["size"]
           ELSE "x-image-meta-size" \notin DOMAIN TheRequest.headers

\* C3 happens: the first seek of a pipe failed and the server answered
C3_Witness ==
    /\ FailingAddImage("ESPIPE") /\ Done
    /\ call.image_data.failAt = "seek_end"
    /\ call.image_meta = EmptyDict
    /\ Len(requests) = 1
    /\ result.kind = "return"

\* C4: when seek or tell fails with an I/O error other than ESPIPE,
\* add_image raises that same error and issues no request.
C4_OtherIOErrorPropagates ==
    \A e \in Errnos \ {"ESPIPE"} :
        (FailingAddImage(e) /\ Done) =>
            /\ result = Raise(e)
            /\ requests = <<>>
            /\ response = NoResponse

\* C4 happens: tell failed with EIO after a seek that worked
C4_Witness ==
    /\ FailingAddImage("EIO") /\ Done
    /\ call.image_data.failAt = "tell"
    /\ result = Raise("EIO")
    /\ requests = <<>>

\* V1Client.replace_members was called
V1ReplaceMembers == call.client = "V1Client" /\ call.op = "replace_members"

AllHaveMemberId ==
    \A i \in 1..Len(call.assocs) : "member_id" \in DOMAIN call.assocs[i]

\* the JSON text of a member identifier
JsonOfMemberId == [m \in MemberIds |-> IF m = "'a'" THEN "\"a\"" ELSE "\"b\""]

\* C5: V1Client.replace_members with associations that all have member_id
\* issues exactly one request, a PUT to /images/{id}/members, whose JSON
\* body lists one entry per association, in order; entry i has member_id
\* of association i, has can_share, as a JSON boolean of its truth value,
\* exactly when association i has it, and has no other key; the caller's
\* associations are as they were.
C5_ReplaceMembersBody ==
    (V1ReplaceMembers /\ Done /\ AllHaveMemberId) =>
        /\ Len(requests) = 1
        /\ TheRequest.method = "PUT"
        /\ TheRequest.path = <<"v1", "images", call.image_id, "members">>
        /\ TheRequest.body.kind = "json"
        /\ Len(TheRequest.body.value) = Len(call.assocs)
        /\ \A i \in 1..Len(call.assocs) :
             LET a == call.assocs[i]
                 e == TheRequest.body.value[i]
             IN  /\ DOMAIN e = {"member_id", "can_share"} \cap DOMAIN a
                 /\ e["member_id"] = JsonOfMemberId[a["member_id"]]
                 /\ "can_share" \in DOMAIN a =>
                       e["can_share"] =
                          IF a["can_share"] \in {"True", "'x'"}
                          THEN "true" ELSE "false"
        /\ callerAssocs = call.assocs

\* C5 happens: two associations in an order that matters, one with an
\* extra key, one with a can_share that is no boolean
C5_Witness ==
    /\ V1ReplaceMembers /\ Done
    /\ Len(call.assocs) = 2
    /\ DOMAIN call.assocs[1] = {"member_id", "extra"}
    /\ call.assocs[1]["member_id"] = "'b'"
    /\ DOMAIN call.assocs[2] = {"member_id", "can_share"}
    /\ call.assocs[2]["member_id"] = "'a'"
    /\ call.assocs[2]["can_share"] = "0"
    /\ Len(requests) = 1
    /\ TheRequest.body.value[2]["can_share"] = "false"

\* C6 as claimed: every operation issues exactly one request per call.
C6_ExactlyOneRequest == Done => Len(requests) = 1

\* the call failed before it reached the transport
FailedLocally ==
    \/ V1ReplaceMembers /\ ~AllHaveMemberId
    \/ \E e \in Errnos \ {"ESPIPE"} : FailingAddImage(e)

\* C6, amended: a call of any operation but prefetch_cache_image issues one
\* request, or none when it fails before the transport is reached
\* (replace_members with an association without member_id, add_image when
\* the length of the stream cannot be read); prefetch_cache_image issues
\* a HEAD and then a PUT, or the HEAD alone when the check fails.
C6_RequestsPerCall ==
    /\ ~Done => Len(requests) = 0
    /\ (Done /\ call.op # "prefetch_cache_image") =>
          Len(requests) = IF FailedLocally THEN 0 ELSE 1
    /\ (Done /\ call.op = "prefetch_cache_image") =>
          /\ Len(requests) \in {1, 2}
          /\ requests[1].method = "HEAD"
          /\ Len(requests) = 2 => requests[2].method = "PUT"
          /\ Len(requests) = 1 => result.kind = "raise"
          /\ result.kind = "return" => Len(requests) = 2

\* C6 happens: a prefetch that went through both of its requests
C6_Witness ==
    /\ Done
    /\ call.op = "prefetch_cache_image"
    /\ Len(requests) = 2
    /\ result = Return("True")

MembershipMutations == {"replace_members", "add_member", "delete_member"}

\* C7: when the transport returns a response to a membership mutation of
\* either client, the boolean handed to the caller is true exactly when the
\* status of the response is 204.
C7_TrueIffNoContent ==
    (Done /\ call.op \in MembershipMutations /\ response.kind = "response") =>
        /\ result.kind = "return"
        /\ (result.value = "True") <=> (response.status = NO_CONTENT)

\* the envelope key of each operation that decodes a JSON body
EnvelopeKey ==
    [get_images                   |-> "images",
     get_images_detailed          |-> "images",
     get_image                    |-> "image",
     add_image                    |-> "image",
     update_image                 |-> "image",
     get_cached_images            |-> "cached_images",
     get_invalid_cached_images    |-> "cached_images",
     get_incomplete_cached_images |-> "cached_images",
     get_prefetching_cache_images |-> "cached_images",
     clear_cached_images          |-> "num_purged",
     reap_invalid_cached_images   |-> "num_reaped",
     reap_stalled_cached_images   |-> "num_reaped",
     get_image_members            |-> "members",
     get_member_images            |-> "shared_images"]

\* the call decoded (or tried to decode) the JSON body of a response
Decoded ==
    /\ Done
    /\ call.op \in DOMAIN EnvelopeKey
    /\ ~(call.client = "V1Client" /\ call.op = "get_image")
    /\ response.kind = "response"

\* the errors json.loads and the lookup of the envelope key fail with: the
\* malformed-response failures, which the transport never raises and
\* add_image never raises for its stream
MalformedResponse == {"ValueError", "KeyError", "TypeError"}

C10_NoConnectionLeftUnowned ==
    (Done /\ call.client = "V1Client" /\ call.op = "get_image"
          /\ response.kind = "response") =>
        ~(conn = "open" /\ owner = "none")

\* add_member was called, on either client
AddMember == Done /\ call.op = "add_member"

\* the path of an action of the client of the call
ClientPath(action) ==
    IF call.client = "V1Client" THEN <<"v1">> \o action ELSE action

\* the content type of a request, whatever the case of the header's name
ContentTypes(req) ==
    { req.headers[h] : h \in (DOMAIN req.headers)
                               \cap {"content-type", "Content-Type"} }

\* C11: add_member of either client issues one PUT to
\* /images/{image}/members/{member}; with can_share unspecified (None) the
\* request has no body and no content-type header; with can_share given,
\* whatever its value, the body is the JSON object
\* {member: {can_share: b}} with b a JSON boolean, true exactly when the
\* value is true, and the content type is JSON.
C11_AddMemberRequest ==
    AddMember =>
        /\ Len(requests) = 1
        /\ TheRequest.method = "PUT"
        /\ TheRequest.path =
              ClientPath(<<"images", call.image_id, "members",
                           call.member_id>>)
        /\ call.can_share = "None" =>
              /\ TheRequest.body.kind = "none"
              /\ ContentTypes(TheRequest) = {}
        /\ call.can_share # "None" =>
              /\ TheRequest.body.kind = "json"
              /\ DOMAIN TheRequest.body.value = {"member"}
              /\ DOMAIN TheRequest.body.value["member"] = {"can_share"}
              /\ TheRequest.body.value["member"]["can_share"] =
                    IF call.can_share \in {"True", "'x'"}
                    THEN "true" ELSE "false"
              /\ ContentTypes(TheRequest) = {"application/json"}

\* C11 on V1Client alone, where it holds
C11_V1ClientOnly == call.client = "V1Client" => C11_AddMemberRequest

\* prefetch_cache_image was called and is over
Prefetched == Done /\ call.op = "prefetch_cache_image"

\* the existence check of the prefetch failed: the HEAD raised, or the
\* decoding of its headers did
HeadFailed == responses[1].kind = "raise" \/ responses[1].hdrs = "bad"

\* C12: prefetch_cache_image issues a HEAD to /images/{id} and then a PUT
\* to /cached_images/{id}, in that order, and returns true only once the
\* PUT has come back without error; when the HEAD, or the decoding of its
\* headers, fails, that failure is what the caller gets and the PUT is
\* never issued.
C12_PrefetchHeadThenPut ==
    Prefetched =>
        /\ Len(requests) \in {1, 2}
        /\ Len(responses) = Len(requests)
        /\ requests[1].method = "HEAD"
        /\ requests[1].path = <<"v1", "images", call.image_id>>
        /\ HeadFailed =>
              /\ Len(requests) = 1
              /\ result = Raise(IF responses[1].kind = "raise"
                                THEN responses[1].error ELSE "ValueError")
        /\ ~HeadFailed =>
              /\ Len(requests) = 2
              /\ requests[2].method = "PUT"
              /\ requests[2].path = <<"v1", "cached_images", call.image_id>>
              /\ result = IF responses[2].kind = "raise"
                          THEN Raise(responses[2].error)
                          ELSE Return("True")
        /\ result.kind = "return" =>
              /\ result.value = "True"
              /\ Len(requests) = 2
              /\ responses[2].kind = "response"

\* C12 happens: the image is not there, the HEAD says so, and the caller
\* gets NotFound with no PUT issued
C12_Witness ==
    /\ Prefetched
    /\ responses = <<TransportRaise("NotFound")>>
    /\ Len(requests) = 1
    /\ requests[1].method = "HEAD"
    /\ result = Raise("NotFound")


====
